---- MODULE Spec2Model ----
(***************************************************************************)
(* zonemaster: a DNS zone-transfer responder.                              *)
(*                                                                         *)
(* The model follows the server of src/unnamed/part_002: the slave         *)
(* registry (setSlaves, the whitelist check at accept time, notify) and    *)
(* the per-request handler of processStream (validation, the SOA producer, *)
(* the body producer with its emit / done callbacks and the batching).     *)
(*                                                                         *)
(* Streams are modelled by what the code hands to them: `out` of a request *)
(* is the sequence of packets its handler passed to writable.write, in     *)
(* call order; `sent` of a notify connection is what was passed to         *)
(* writableWrap.end.  The byte codec and the length-prefix framing are     *)
(* libraries outside the repository; of them the model keeps only that     *)
(* Packet.parse can throw on a received message.                           *)
(***************************************************************************)
EXTENDS Integers, Sequences, FiniteSets, TLC

(***************************************************************************)
(* Bounds of the model.                                                    *)
(***************************************************************************)
MaxConns  == 2      \* inbound connections accepted in one behaviour
MaxReqs   == 1      \* request messages received in one behaviour
MaxPipelined == 2   \* requests sent back to back on one connection
MaxEmit   == 3      \* records one body producer emits
MaxCalls  == 2      \* setSlaves calls, the constructor's included
MaxNotify == 1      \* notify() calls
MaxList   == 2      \* entries of a slaves list
MaxBatchEmit == 21  \* records emitted in the batching scenario

(***************************************************************************)
(* Program constants.                                                      *)
(***************************************************************************)
DefaultBatchSize == 20      \* params.batchSize || 20
DefaultPort      == 53      \* parseInt(parts[1], 10) || 53

Domain == "test.lan"        \* params.domain

(***************************************************************************)
(* Input alphabets.                                                        *)
(***************************************************************************)
Names      == {Domain, "TEST.LAN", "other.lan"}
Opcodes    == {"QUERY", "NOTIFY"}
Classes    == {"IN", "CH"}
Types      == {"SOA", "AXFR", "IXFR", "A"}
ReqIds     == {1, 2}
BatchSizes == {0, 1, 2}     \* 0 stands for an unset (falsy) params.batchSize
Record(k)  == [class |-> "IN", type |-> "A", name |-> k]
SoaRecords == {[type |-> "SOA", serial |-> 1], [type |-> "SOA", serial |-> 2]}
Errors     == {[msg |-> "failed", code |-> "NONE"], [msg |-> "pipe", code |-> "EPIPE"]}
LookupErrors == {[msg |-> "not found", code |-> "ENOTFOUND"]}
ConnectErrors == {[msg |-> "refused", code |-> "ECONNREFUSED"]}
TransportErrors == {[msg |-> "pipe", code |-> "EPIPE"], [msg |-> "reset", code |-> "ECONNRESET"]}
ParseError == [msg |-> "parse", code |-> "NONE"]
NoError    == [msg |-> "", code |-> "NONE"]
NoSoa      == [type |-> "NONE", serial |-> 0]

\* Addresses are strings, modelled as token sequences so that the seven
\* character prefix "::ffff:" can be cut off.
A1 == <<"10.0.0.1">>
A2 == <<"10.0.0.2">>
A3 == <<"10.0.0.3">>
M1 == <<"::ffff:", "10.0.0.1">>
RemoteAddresses == {A1, M1, A3}
LookupAnswers   == {{A1}, {M1, A2}}

\* Entries of a slaves list: a string, given by its '@'-separated parts (each
\* part a sequence of characters), or an object with host and port (for an
\* object `parts` is unused, for a string `host` and `port` are).
SlaveEntries ==
    {[kind |-> "string", parts |-> << <<"a">> >>, host |-> <<>>, port |-> 0],
     [kind |-> "string", parts |-> << <<"a">>, <<"1", "0">> >>, host |-> <<>>, port |-> 0],
     [kind |-> "object", parts |-> <<>>, host |-> <<"b">>, port |-> 11]}

\* The values of the constructor's params.slaves: absent, or a list.
ParamSlaves ==
    {[given |-> FALSE, list |-> <<>>],
     [given |-> TRUE,
      list |-> << [kind |-> "string", parts |-> << <<"a">> >>, host |-> <<>>, port |-> 0] >>]}

RECURSIVE SeqsUpTo(_, _)
SeqsUpTo(S, n) ==
    IF n = 0 THEN {<<>>}
    ELSE LET shorter == SeqsUpTo(S, n - 1)
         IN  shorter \cup {Append(s, x) : s \in shorter, x \in S}

VARIABLES
    slaves,       \* server.slaves: the committed slave list
    slavesByIp,   \* server.slavesByIp: sanitized address -> slave
    calls,        \* setSlaves invocations and their lookups in flight
    conns,        \* inbound connections
    reqs,         \* requests received by processStream's data listener
    notifies,     \* outbound connections opened by notify()
    notifyCount,  \* number of notify() calls so far
    batchSize     \* params.batchSize

vars == <<slaves, slavesByIp, calls, conns, reqs, notifies, notifyCount, batchSize>>

(***************************************************************************)
(* Utilities.                                                              *)
(***************************************************************************)
sanitizeAddress_keep(addr) == addr

\* exports.sanitizeAddress
sanitizeAddress(addr) ==
    IF Len(addr) > 1 /\ addr[1] = "::ffff:" THEN Tail(addr) ELSE addr

\* parseInt(text, 10) on a port part; -1 stands for NaN.
Digits == <<"0", "1", "2", "3", "4", "5", "6", "7", "8", "9">>
IsDigit(ch) == \E d \in 1..10 : Digits[d] = ch
DigitValue(ch) == (CHOOSE d \in 1..10 : Digits[d] = ch) - 1

RECURSIVE ParseDigits(_, _, _)
ParseDigits(chars, i, acc) ==
    IF i > Len(chars) \/ ~IsDigit(chars[i]) THEN acc
    ELSE ParseDigits(chars, i + 1, 10 * acc + DigitValue(chars[i]))

ParseInt(chars) ==
    IF Len(chars) = 0 \/ ~IsDigit(chars[1]) THEN -1
    ELSE ParseDigits(chars, 1, 0)

\* A slave object.  `ord` is the object's position in its list and stands for
\* the object's identity (two entries with equal host and port are two
\* objects).
NoSlave == [host |-> <<>>, port |-> 0, addresses |-> {}, ord |-> 0]

\* setSlaves: expand strings to objects.
ExpandEntry(entry, i) ==
    IF entry.kind = "string"
    THEN LET parts == entry.parts
             n == IF Len(parts) >= 2 THEN ParseInt(parts[2]) ELSE -1
         IN  [host |-> parts[1],
              port |-> IF n = -1 \/ n = 0 THEN DefaultPort ELSE n,
              addresses |-> {}, ord |-> i]
    ELSE [host |-> entry.host, port |-> entry.port, addresses |-> {}, ord |-> i]

RECURSIVE BuildIndex_first(_, _, _)
BuildIndex_first(list, i, idx) ==
    IF i > Len(list) THEN idx
    ELSE LET s == list[i]
             keys == DOMAIN idx \cup s.addresses
         IN  BuildIndex_first(list, i + 1,
                 [a \in keys |-> IF a \in DOMAIN idx THEN idx[a] ELSE s])

\* The IP index built by onComplete: slaves in list order, later ones
\* overwriting earlier ones.
RECURSIVE BuildIndex(_, _, _)
BuildIndex(list, i, idx) ==
    IF i > Len(list) THEN idx
    ELSE LET s == list[i]
             keys == DOMAIN idx \cup s.addresses
         IN  BuildIndex(list, i + 1,
                 [a \in keys |-> IF a \in s.addresses THEN s ELSE idx[a]])

EmptyIndex == [a \in {} |-> NoSlave]

\* The state of a setSlaves call: its expanded list, the `pending` counter,
\* the lookups still in flight, and what it delivered (`cbLog`: calls of the
\* callback; `emitted`: error events on the server; `commits`: runs of
\* onComplete).
StartCall(entries, hasCb) ==
    LET list == [i \in 1..Len(entries) |-> ExpandEntry(entries[i], i)]
        empty == Len(list) = 0
    IN  [list |-> list, pending |-> Len(list), inflight |-> 1..Len(list),
         hasCb |-> hasCb,
         cbLog |-> IF empty /\ hasCb THEN <<NoError>> ELSE <<>>,
         emitted |-> <<>>,
         commits |-> IF empty THEN 1 ELSE 0]

\* The state after construction with params.slaves = p and
\* params.batchSize = b: the constructor calls setSlaves without a callback
\* when params.slaves is given.
Constructed(p, b) ==
    /\ slaves = <<>>
    /\ slavesByIp = EmptyIndex
    /\ calls = IF p.given THEN <<StartCall(p.list, FALSE)>> ELSE <<>>
    /\ conns = <<>>
    /\ reqs = <<>>
    /\ notifies = <<>>
    /\ notifyCount = 0
    /\ batchSize = b

Init == \E p \in ParamSlaves, b \in BatchSizes : Constructed(p, b)

\* Construction for the administrative scenarios: batchSize left unset, any
\* slaves list.
InitAdmin == \E p \in ParamSlaves : Constructed(p, 0)

\* Construction for the start-up scenario: params.slaves absent or any
\* list.
InitStartup ==
    \E p \in {[given |-> FALSE, list |-> <<>>]}
              \cup {[given |-> TRUE, list |-> l] : l \in SeqsUpTo(SlaveEntries, MaxList)} :
        Constructed(p, 0)

InitNotify ==
    \E l \in SeqsUpTo(SlaveEntries, MaxList) :
        Constructed([given |-> TRUE, list |-> l], 0)

(***************************************************************************)
(* The slave registry.                                                     *)
(***************************************************************************)
SetSlaves_reset(entries, hasCb) ==
    /\ Len(calls) < MaxCalls
    /\ calls' = Append(calls, StartCall(entries, hasCb))
    /\ IF Len(entries) = 0
       THEN slaves' = <<>> /\ slavesByIp' = EmptyIndex
       ELSE UNCHANGED <<slaves, slavesByIp>>
    /\ conns' = [c \in DOMAIN conns |-> [conns[c] EXCEPT !.alive = FALSE]]
    /\ UNCHANGED <<reqs, notifies, notifyCount, batchSize>>

\* server.setSlaves(list, cb); an empty list completes at once.
SetSlaves(entries, hasCb) ==
    /\ Len(calls) < MaxCalls
    /\ calls' = Append(calls, StartCall(entries, hasCb))
    /\ IF Len(entries) = 0
       THEN slaves' = <<>> /\ slavesByIp' = EmptyIndex
       ELSE UNCHANGED <<slaves, slavesByIp>>
    /\ UNCHANGED <<conns, reqs, notifies, notifyCount, batchSize>>

Commit_half(call) ==
    /\ slaves' = call.list
    /\ UNCHANGED slavesByIp

Commit_merge(call) ==
    /\ slaves' = slaves \o call.list
    /\ slavesByIp' = BuildIndex(slaves \o call.list, 1, EmptyIndex)

\* onComplete of call c, run by the lookup that brings pending to 0.
Commit(call) ==
    /\ slaves' = call.list
    /\ slavesByIp' = BuildIndex(call.list, 1, EmptyIndex)

LookupOk_eager(c, i, addrs) ==
    /\ c \in DOMAIN calls
    /\ i \in calls[c].inflight
    /\ LET call == calls[c]
           resolved == [call EXCEPT
                           !.inflight = @ \ {i},
                           !.pending = @ - 1,
                           !.list[i].addresses = {sanitizeAddress(a) : a \in addrs}]
       IN  IF call.pending = -1
           THEN /\ calls' = [calls EXCEPT ![c].inflight = @ \ {i}]
                /\ UNCHANGED <<slaves, slavesByIp>>
           ELSE /\ Commit(resolved)
                /\ calls' = [calls EXCEPT ![c] =
                       IF resolved.pending = 0
                       THEN [resolved EXCEPT
                                !.commits = @ + 1,
                                !.cbLog = IF call.hasCb THEN Append(@, NoError) ELSE @]
                       ELSE resolved]
    /\ UNCHANGED <<conns, reqs, notifies, notifyCount, batchSize>>

\* The dns.lookup callback of slave i of call c, without error.
LookupOk(c, i, addrs) ==
    /\ c \in DOMAIN calls
    /\ i \in calls[c].inflight
    /\ LET call == calls[c]
           resolved == [call EXCEPT
                           !.inflight = @ \ {i},
                           !.pending = @ - 1,
                           !.list[i].addresses = {sanitizeAddress(a) : a \in addrs}]
       IN  IF call.pending = -1
           THEN /\ calls' = [calls EXCEPT ![c].inflight = @ \ {i}]
                /\ UNCHANGED <<slaves, slavesByIp>>
           ELSE IF resolved.pending = 0
           THEN /\ Commit(resolved)
                /\ calls' = [calls EXCEPT ![c] =
                       [resolved EXCEPT
                           !.commits = @ + 1,
                           !.cbLog = IF call.hasCb THEN Append(@, NoError) ELSE @]]
           ELSE /\ calls' = [calls EXCEPT ![c] = resolved]
                /\ UNCHANGED <<slaves, slavesByIp>>
    /\ UNCHANGED <<conns, reqs, notifies, notifyCount, batchSize>>

LookupErr_counts(c, i, err) ==
    /\ c \in DOMAIN calls
    /\ i \in calls[c].inflight
    /\ LET call == calls[c]
           counted == [call EXCEPT
                          !.inflight = @ \ {i},
                          !.pending = @ - 1,
                          !.cbLog = IF call.hasCb THEN Append(@, err) ELSE @,
                          !.emitted = IF call.hasCb THEN @ ELSE Append(@, err)]
       IN  IF counted.pending = 0
           THEN /\ Commit(counted)
                /\ calls' = [calls EXCEPT ![c] = [counted EXCEPT !.commits = @ + 1]]
           ELSE /\ calls' = [calls EXCEPT ![c] = counted]
                /\ UNCHANGED <<slaves, slavesByIp>>
    /\ UNCHANGED <<conns, reqs, notifies, notifyCount, batchSize>>

LookupErr_again(c, i, err) ==
    /\ c \in DOMAIN calls
    /\ i \in calls[c].inflight
    /\ calls' = [calls EXCEPT ![c] =
           [calls[c] EXCEPT
               !.inflight = @ \ {i},
               !.pending = -1,
               !.cbLog = IF calls[c].hasCb THEN Append(@, err) ELSE @,
               !.emitted = IF calls[c].hasCb THEN @ ELSE Append(@, err)]]
    /\ UNCHANGED <<slaves, slavesByIp, conns, reqs, notifies, notifyCount, batchSize>>

\* The dns.lookup callback of slave i of call c, with an error.
LookupErr(c, i, err) ==
    /\ c \in DOMAIN calls
    /\ i \in calls[c].inflight
    /\ LET call == calls[c]
       IN  IF call.pending = -1
           THEN calls' = [calls EXCEPT ![c].inflight = @ \ {i}]
           ELSE calls' = [calls EXCEPT ![c] =
                   [call EXCEPT
                       !.inflight = @ \ {i},
                       !.pending = -1,
                       !.cbLog = IF call.hasCb THEN Append(@, err) ELSE @,
                       !.emitted = IF call.hasCb THEN @ ELSE Append(@, err)]]
    /\ UNCHANGED <<slaves, slavesByIp, conns, reqs, notifies, notifyCount, batchSize>>

\* Two address strings name the same host: they agree after the optional
\* IPv4-mapped prefix (stated without sanitizeAddress).
SameHost(a, b) == a[Len(a)] = b[Len(b)]

\* The connection listener of net.createServer.  `listed` records whether
\* the remote address, sanitized, is a resolved address of a slave of the
\* committed list (read from the list, not from the index).
Whitelisted_any(addr) == [addresses |-> {addr}, host |-> <<>>, port |-> 0, ord |-> 0]

Whitelisted(addr) ==
    IF addr \in DOMAIN slavesByIp THEN slavesByIp[addr] ELSE NoSlave

Accept(remote) ==
    /\ Len(conns) < MaxConns
    /\ LET addr == sanitizeAddress(remote)
           slave == Whitelisted(addr)
       IN  conns' = Append(conns,
               [remote |-> remote,
                slave |-> slave,
                wired |-> slave # NoSlave,
                alive |-> slave # NoSlave,
                transport |-> <<>>, serverErrors |-> <<>>,
                decodeErrors |-> <<>>, unhandled |-> <<>>,
                listed |-> \E i \in DOMAIN slaves :
                              \E a \in slaves[i].addresses : SameHost(a, remote)])
    /\ UNCHANGED <<slaves, slavesByIp, calls, reqs, notifies, notifyCount, batchSize>>

\* The connection's 'error' listener: EPIPE is dropped, any other error is
\* emitted on the server with the connection attached.
ConnErrorListener_all(conn, c, err) ==
    [conn EXCEPT !.serverErrors = Append(@, [error |-> err, connection |-> c])]

ConnErrorListener(conn, c, err) ==
    IF err.code = "EPIPE" THEN conn
    ELSE [conn EXCEPT !.serverErrors = Append(@, [error |-> err, connection |-> c])]

\* The socket of an accepted connection emits a transport error, once, and
\* is destroyed; `transport` records the errors the socket emitted.
TransportError(c, err) ==
    /\ c \in DOMAIN conns
    /\ conns[c].wired
    /\ conns[c].transport = <<>>
    /\ conns' = [conns EXCEPT ![c] =
           [ConnErrorListener(@, c, err) EXCEPT
               !.transport = Append(@, err), !.alive = FALSE]]
    /\ UNCHANGED <<slaves, slavesByIp, calls, reqs, notifies, notifyCount, batchSize>>

\* Packet.parse throws on a message of connection c: the parser transform
\* passes the error to its callback, and the stream emits it as an 'error'
\* event on conn.readableWrap.  processStream listens for 'data' only and
\* pipe() forwards no errors, so the event has no listener (`unhandled`) and
\* is thrown in the event loop.  `decodeErrors` records what the parser
\* reported.
DecodeError(c) ==
    /\ c \in DOMAIN conns
    /\ conns[c].wired /\ conns[c].alive
    /\ conns[c].decodeErrors = <<>>
    /\ conns' = [conns EXCEPT ![c].decodeErrors = Append(@, ParseError),
                              ![c].unhandled = Append(@, ParseError)]
    /\ UNCHANGED <<slaves, slavesByIp, calls, reqs, notifies, notifyCount, batchSize>>

\* An 'error' event without a listener is an uncaught exception: the process
\* ends.
Crashed == \E c \in DOMAIN conns : conns[c].unhandled # <<>>

\* Either peer closes an accepted connection.
Close(c) ==
    /\ c \in DOMAIN conns
    /\ conns[c].alive
    /\ conns' = [conns EXCEPT ![c].alive = FALSE]
    /\ UNCHANGED <<slaves, slavesByIp, calls, reqs, notifies, notifyCount, batchSize>>

(***************************************************************************)
(* notify().                                                               *)
(***************************************************************************)
\* new Packet(): every header field 0, every section empty.
Packet ==
    [id |-> 0, qr |-> 0, opcode |-> "QUERY", aa |-> 0, rcode |-> "NOERROR",
     question |-> <<>>, answer |-> <<>>]

NotifyPacket_query ==
    [Packet EXCEPT !.aa = 1,
                   !.question = <<[class |-> "IN", type |-> "SOA", name |-> Domain]>>]

\* The request packet notify() builds.
NotifyPacket ==
    [Packet EXCEPT !.opcode = "NOTIFY", !.aa = 1,
                   !.question = <<[class |-> "IN", type |-> "SOA", name |-> Domain]>>]

\* server.notify(): one outbound connection per slave of the list.
Notify ==
    /\ notifyCount < MaxNotify
    /\ notifyCount' = notifyCount + 1
    /\ notifies' = notifies \o
           [i \in 1..Len(slaves) |->
               [call |-> notifyCount + 1, slave |-> slaves[i],
                host |-> slaves[i].host, port |-> slaves[i].port,
                state |-> "connecting", sent |-> <<>>, errors |-> <<>>]]
    /\ UNCHANGED <<slaves, slavesByIp, calls, conns, reqs, batchSize>>

\* The 'connect' listener of outbound connection n.
NotifyConnect(n) ==
    /\ n \in DOMAIN notifies
    /\ notifies[n].state = "connecting"
    /\ notifies' = [notifies EXCEPT ![n].state = "connected",
                                    ![n].sent = Append(@, NotifyPacket)]
    /\ UNCHANGED <<slaves, slavesByIp, calls, conns, reqs, notifyCount, batchSize>>

NotifyError_retry(n, err) ==
    /\ n \in DOMAIN notifies
    /\ notifies[n].state \in {"connecting", "connected"}
    /\ notifies' = Append(
           [notifies EXCEPT
               ![n].state = "failed",
               ![n].errors = Append(@, [error |-> err, request |-> NotifyPacket,
                                        connection |-> n])],
           [notifies[n] EXCEPT !.state = "connecting", !.sent = <<>>])
    /\ UNCHANGED <<slaves, slavesByIp, calls, conns, reqs, notifyCount, batchSize>>

\* The 'error' listener of outbound connection n.
NotifyError(n, err) ==
    /\ n \in DOMAIN notifies
    /\ notifies[n].state \in {"connecting", "connected"}
    /\ notifies' = [notifies EXCEPT
           ![n].state = "failed",
           ![n].errors = Append(@, [error |-> err, request |-> NotifyPacket, connection |-> n])]
    /\ UNCHANGED <<slaves, slavesByIp, calls, conns, reqs, notifyCount, batchSize>>

(***************************************************************************)
(* processStream: the 'data' listener and the callbacks it creates.        *)
(***************************************************************************)
\* The request messages the parser delivers: no question, one question that
\* departs from a supported query in at most one respect, or two questions.
Questions == [class : Classes, name : Names, type : Types]

Departures(o, q) ==
    (IF o # "QUERY" THEN 1 ELSE 0) + (IF q.class # "IN" THEN 1 ELSE 0)
    + (IF q.name # Domain THEN 1 ELSE 0) + (IF q.type = "A" THEN 1 ELSE 0)

Message(i, o, q) ==
    [id |-> i, opcode |-> o, question |-> q,
     authority |-> IF Len(q) = 1 /\ q[1].type = "IXFR"
                   THEN <<[type |-> "SOA", serial |-> 1]>> ELSE <<>>]

Requests ==
    {Message(i, o, <<>>) : i \in ReqIds, o \in Opcodes}
    \cup {Message(i, m[1], <<m[2]>>) :
             i \in ReqIds,
             m \in {x \in Opcodes \X Questions : Departures(x[1], x[2]) <= 1}}
    \cup {Message(i, o, <<[class |-> "IN", name |-> Domain, type |-> "SOA"],
                          [class |-> "IN", name |-> Domain, type |-> "AXFR"]>>) :
             i \in ReqIds, o \in Opcodes}

BatchLimit_unset == batchSize

\* params.batchSize || 20
BatchLimit == IF batchSize = 0 THEN DefaultBatchSize ELSE batchSize

ResponsePacket_noid(req) == [Packet EXCEPT !.qr = 1]

\* class ResponsePacket
ResponsePacket(req) == [Packet EXCEPT !.id = req.id, !.qr = 1]

WrongCount_zero(req) == Len(req.question) < 1

\* req.question.length !== 1
WrongCount(req) == Len(req.question) # 1

Unsupported_noname(req) ==
    LET q == req.question[1]
    IN  \/ req.opcode # "QUERY"
        \/ q.class # "IN"
        \/ (q.type # "SOA" /\ q.type # "AXFR" /\ q.type # "IXFR")

\* The condition of the NOTIMP answer.
Unsupported(req) ==
    LET q == req.question[1]
    IN  \/ req.opcode # "QUERY"
        \/ q.class # "IN"
        \/ q.name # Domain
        \/ (q.type # "SOA" /\ q.type # "AXFR" /\ q.type # "IXFR")

Write_checked(r, pkt) ==
    IF conns[r.conn].alive THEN [r EXCEPT !.out = Append(@, pkt)] ELSE r

\* writable.write(pkt) by the handler of request r.  `late` counts the
\* writes made after the connection was closed.
Write(r, pkt) ==
    [r EXCEPT !.out = Append(@, pkt),
              !.late = @ + (IF conns[r.conn].alive THEN 0 ELSE 1)]

\* The 'data' listener up to the call of soaFn.
HandleData(c, req) ==
    LET pkt == [ResponsePacket(req) EXCEPT !.question = req.question]
        r0  == [conn |-> c, msg |-> req, stage |-> "new", pkt |-> pkt,
                soa |-> NoSoa, soaResult |-> NoSoa, err |-> NoError,
                pending |-> <<>>, emitted |-> <<>>, out |-> <<>>, late |-> 0,
                logCalls |-> 0, soaCalls |-> 0, bodyCalls |-> 0, bodyArgs |-> <<>>,
                errorFnCalls |-> <<>>, serverErrors |-> <<>>]
    IN  IF WrongCount(req)
        THEN [Write(r0, [pkt EXCEPT !.rcode = "FORMERR"]) EXCEPT !.stage = "formerr"]
        ELSE IF Unsupported(req)
        THEN [Write(r0, [pkt EXCEPT !.rcode = "NOTIMP"]) EXCEPT
                 !.stage = "notimp", !.logCalls = 1]
        ELSE [r0 EXCEPT !.stage = "soa", !.logCalls = 1, !.soaCalls = 1]

Fail_noquestion(r, err, isFirst) ==
    LET pkt == [ResponsePacket(r.msg) EXCEPT !.aa = 1, !.rcode = "SERVFAIL"]
    IN  [Write(r, pkt) EXCEPT
            !.errorFnCalls = Append(@, err),
            !.serverErrors =
                IF err.code = "EPIPE" THEN @
                ELSE Append(@, [error |-> err, request |-> r.msg, connection |-> r.conn])]

\* fail(err, isFirst), with the errorFn the server passes to processStream
\* and the connection's 'error' listener it reaches through conn.emit.
Fail(r, err, isFirst) ==
    LET pkt == [ResponsePacket(r.msg) EXCEPT
                   !.aa = 1, !.rcode = "SERVFAIL",
                   !.question = IF isFirst THEN r.msg.question ELSE <<>>]
    IN  [Write(r, pkt) EXCEPT
            !.errorFnCalls = Append(@, err),
            !.serverErrors =
                IF err.code = "EPIPE" THEN @
                ELSE Append(@, [error |-> err, request |-> r.msg, connection |-> r.conn])]

SoaCb_noflag(r, err, soa) ==
    IF err # NoError
    THEN [Fail(r, err, TRUE) EXCEPT !.stage = "soafail"]
    ELSE LET sent == Write(r, [r.pkt EXCEPT !.answer = <<soa>>])
             q == r.msg.question[1]
         IN  IF q.type # "AXFR" /\ q.type # "IXFR"
             THEN [sent EXCEPT !.stage = "answered", !.soa = soa]
             ELSE [sent EXCEPT !.stage = "body", !.soa = soa, !.pending = <<>>,
                               !.bodyCalls = @ + 1]

SoaCb_always(r, err, soa) ==
    IF err # NoError
    THEN [Fail(r, err, TRUE) EXCEPT !.stage = "soafail"]
    ELSE [Write(r, [r.pkt EXCEPT !.aa = 1, !.answer = <<soa>>]) EXCEPT
             !.stage = "body", !.soa = soa, !.pending = <<>>, !.bodyCalls = @ + 1]

\* The arguments of params.bodyFn(context, req, soa, emitFn, bodyCb), in
\* call order; context is the connection.
BodyFnArgs(r, soa) ==
    <<[kind |-> "context", conn |-> r.conn],
      [kind |-> "request", msg |-> r.msg],
      [kind |-> "record", record |-> soa],
      [kind |-> "function", name |-> "emitFn"],
      [kind |-> "function", name |-> "bodyCb"]>>

SoaCb_serial(r, err, soa) ==
    IF err # NoError
    THEN [Fail(r, err, TRUE) EXCEPT !.stage = "soafail"]
    ELSE LET sent == Write(r, [r.pkt EXCEPT !.aa = 1, !.answer = <<soa>>])
             q == r.msg.question[1]
         IN  IF q.type # "AXFR" /\ q.type # "IXFR"
             THEN [sent EXCEPT !.stage = "answered", !.soa = soa]
             ELSE [sent EXCEPT !.stage = "body", !.soa = soa, !.pending = <<>>,
                               !.bodyCalls = @ + 1,
                               !.bodyArgs = Append(@,
                                   <<[kind |-> "context", conn |-> r.conn],
                                     [kind |-> "request", msg |-> r.msg],
                                     [kind |-> "question", question |-> q],
                                     IF q.type = "IXFR"
                                     THEN [kind |-> "serial",
                                           serial |-> r.msg.authority[1].serial]
                                     ELSE [kind |-> "none"],
                                     [kind |-> "function", name |-> "emitFn"],
                                     [kind |-> "function", name |-> "bodyCb"]>>)]

\* The callback given to soaFn.  `bodyArgs` records the argument lists
\* bodyFn was called with.
SoaCb(r, err, soa) ==
    IF err # NoError
    THEN [Fail(r, err, TRUE) EXCEPT !.stage = "soafail"]
    ELSE LET sent == Write(r, [r.pkt EXCEPT !.aa = 1, !.answer = <<soa>>])
             q == r.msg.question[1]
         IN  IF q.type # "AXFR" /\ q.type # "IXFR"
             THEN [sent EXCEPT !.stage = "answered", !.soa = soa]
             ELSE [sent EXCEPT !.stage = "body", !.soa = soa, !.pending = <<>>,
                               !.bodyCalls = @ + 1,
                               !.bodyArgs = Append(@, BodyFnArgs(r, soa))]

EmitFn_keep(r, record) ==
    LET pending == Append(r.pending, record)
    IN  IF Len(pending) >= BatchLimit
        THEN Write(r, [ResponsePacket(r.msg) EXCEPT !.aa = 1, !.answer = pending])
        ELSE [r EXCEPT !.pending = pending]

\* emitFn(record)
EmitFn(r, record) ==
    LET pending == Append(r.pending, record)
    IN  IF Len(pending) >= BatchLimit
        THEN [Write(r, [ResponsePacket(r.msg) EXCEPT !.aa = 1, !.answer = pending])
                 EXCEPT !.pending = <<>>]
        ELSE [r EXCEPT !.pending = pending]

BodyCb_closing(r, err) ==
    LET flushed == IF Len(r.pending) # 0
                   THEN Write(r, [ResponsePacket(r.msg) EXCEPT
                                     !.aa = 1, !.answer = r.pending])
                   ELSE r
    IN  [Write(flushed, [ResponsePacket(r.msg) EXCEPT
                            !.aa = 1, !.answer = <<r.soa>>])
            EXCEPT !.stage = IF err # NoError THEN "failed" ELSE "done"]

BodyCb_flush(r, err) ==
    LET flushed == IF Len(r.pending) # 0
                   THEN Write(r, [ResponsePacket(r.msg) EXCEPT
                                     !.aa = 1, !.answer = r.pending])
                   ELSE r
    IN  IF err # NoError
        THEN [Fail(flushed, err, FALSE) EXCEPT !.stage = "failed"]
        ELSE [Write(flushed, [ResponsePacket(r.msg) EXCEPT
                                 !.aa = 1, !.answer = <<r.soa>>])
                 EXCEPT !.stage = "done"]

\* bodyCb(err); NoError stands for a null err.
BodyCb(r, err) ==
    IF err # NoError
    THEN [Fail(r, err, FALSE) EXCEPT !.stage = "failed"]
    ELSE LET flushed == IF Len(r.pending) # 0
                        THEN Write(r, [ResponsePacket(r.msg) EXCEPT
                                          !.aa = 1, !.answer = r.pending])
                        ELSE r
         IN  [Write(flushed, [ResponsePacket(r.msg) EXCEPT
                                 !.aa = 1, !.answer = <<r.soa>>])
                 EXCEPT !.stage = "done"]

\* A message arrives on connection c: the whole 'data' listener runs.  The
\* listener is called for every message the parser emits, whatever the state
\* of the earlier requests; `limit` bounds the messages of a behaviour.
OnData(c, req, limit) ==
    /\ c \in DOMAIN conns
    /\ conns[c].wired /\ conns[c].alive
    /\ Len(reqs) < limit
    /\ reqs' = Append(reqs, HandleData(c, req))
    /\ UNCHANGED <<slaves, slavesByIp, calls, conns, notifies, notifyCount, batchSize>>

\* soaFn calls its callback with a record; `soaResult` records the record
\* the producer passed.
SoaOk(r, soa) ==
    /\ r \in DOMAIN reqs
    /\ reqs[r].stage = "soa"
    /\ reqs' = [reqs EXCEPT ![r] = [SoaCb(@, NoError, soa) EXCEPT !.soaResult = soa]]
    /\ UNCHANGED <<slaves, slavesByIp, calls, conns, notifies, notifyCount, batchSize>>

SoaErr_closes(r, err) ==
    /\ r \in DOMAIN reqs
    /\ reqs[r].stage = "soa"
    /\ reqs' = [reqs EXCEPT ![r] = [SoaCb(@, err, NoSoa) EXCEPT !.err = err]]
    /\ conns' = [conns EXCEPT ![reqs[r].conn].alive = FALSE]
    /\ UNCHANGED <<slaves, slavesByIp, calls, notifies, notifyCount, batchSize>>

\* soaFn calls its callback with an error.
SoaErr(r, err) ==
    /\ r \in DOMAIN reqs
    /\ reqs[r].stage = "soa"
    /\ reqs' = [reqs EXCEPT ![r] = [SoaCb(@, err, NoSoa) EXCEPT !.err = err]]
    /\ UNCHANGED <<slaves, slavesByIp, calls, conns, notifies, notifyCount, batchSize>>

EmitRecord_shared(r, record, limit) ==
    /\ r \in DOMAIN reqs
    /\ reqs[r].stage = "body"
    /\ Len(reqs[r].emitted) < limit
    /\ reqs' = [t \in DOMAIN reqs |->
                   IF t = r
                   THEN [EmitFn(reqs[r], record) EXCEPT !.emitted = Append(@, record)]
                   ELSE IF reqs[t].stage = "body"
                   THEN [reqs[t] EXCEPT !.pending = Append(@, record)]
                   ELSE reqs[t]]
    /\ UNCHANGED <<slaves, slavesByIp, calls, conns, notifies, notifyCount, batchSize>>

\* bodyFn calls emit(record) before it called done; `emitted` records what
\* the producer emitted, at most `limit` records in a behaviour.
EmitRecord(r, record, limit) ==
    /\ r \in DOMAIN reqs
    /\ reqs[r].stage = "body"
    /\ Len(reqs[r].emitted) < limit
    /\ reqs' = [reqs EXCEPT ![r] = [EmitFn(@, record) EXCEPT
                                       !.emitted = Append(@, record)]]
    /\ UNCHANGED <<slaves, slavesByIp, calls, conns, notifies, notifyCount, batchSize>>

\* A producer whose k-th record is Record(k).
Emit(r) ==
    /\ r \in DOMAIN reqs
    /\ EmitRecord(r, Record(Len(reqs[r].emitted) + 1), MaxEmit)

\* bodyFn calls emit(record) after it called done: emitFn and bodyCb share
\* the closure's `pending`, which bodyCb and fail leave as it is.
EmitAfterDone(r) ==
    /\ r \in DOMAIN reqs
    /\ reqs[r].stage \in {"done", "failed"}
    /\ Len(reqs[r].emitted) < MaxEmit
    /\ LET record == Record(Len(reqs[r].emitted) + 1)
       IN  reqs' = [reqs EXCEPT ![r] = [EmitFn(@, record) EXCEPT
                                          !.emitted = Append(@, record)]]
    /\ UNCHANGED <<slaves, slavesByIp, calls, conns, notifies, notifyCount, batchSize>>

\* bodyFn calls done(null).
DoneOk(r) ==
    /\ r \in DOMAIN reqs
    /\ reqs[r].stage = "body"
    /\ reqs' = [reqs EXCEPT ![r] = BodyCb(@, NoError)]
    /\ UNCHANGED <<slaves, slavesByIp, calls, conns, notifies, notifyCount, batchSize>>

\* bodyFn calls done(err); `err` records the error the producer passed.
DoneErr(r, err) ==
    /\ r \in DOMAIN reqs
    /\ reqs[r].stage = "body"
    /\ reqs' = [reqs EXCEPT ![r] = [BodyCb(@, err) EXCEPT !.err = err]]
    /\ UNCHANGED <<slaves, slavesByIp, calls, conns, notifies, notifyCount, batchSize>>

(***************************************************************************)
(* Specifications.                                                         *)
(*   Spec:      a server constructed with params.slaves serving requests.  *)
(*   SpecPipeline: one slave sending transfer requests back to back on     *)
(*              one connection.                                            *)
(*   SpecSlaves: setSlaves calls and their lookups, possibly overlapping.  *)
(*   SpecNotify: a server constructed with a slaves list, and notify().    *)
(*   SpecLateEmit: one transfer whose body producer may call emit after    *)
(*              it called done.                                            *)
(*   SpecSession: one slave sending its requests one after the other on    *)
(*              one connection, each after the outcome of the one before.  *)
(*   SpecConns: transfers running at the same time on different           *)
(*              connections, each producer emitting records of its own.    *)
(*   SpecBatch: one transfer long enough to fill a batch of the default   *)
(*              size.                                                      *)
(*   SpecStartup: connections, requests and notify() while the lookups of  *)
(*              the constructor's setSlaves call come in.                  *)
(*   SpecReconfig: a connection and its transfer while a second setSlaves *)
(*              call replaces the registry.                                *)
(*   SpecFaults: connections with transport errors and undecodable         *)
(*              messages; nothing runs once the process has ended.         *)
(***************************************************************************)
Next ==
    \/ \E c \in 1..MaxCalls, i \in 1..MaxList, addrs \in LookupAnswers : LookupOk(c, i, addrs)
    \/ \E c \in 1..MaxCalls, i \in 1..MaxList, err \in LookupErrors : LookupErr(c, i, err)
    \/ \E remote \in RemoteAddresses : Accept(remote)
    \/ \E c \in 1..MaxConns : Close(c)
    \/ \E c \in 1..MaxConns, req \in Requests : OnData(c, req, MaxReqs)
    \/ \E r \in 1..MaxReqs, soa \in SoaRecords : SoaOk(r, soa)
    \/ \E r \in 1..MaxReqs, err \in Errors : SoaErr(r, err)
    \/ \E r \in 1..MaxReqs : Emit(r)
    \/ \E r \in 1..MaxReqs : DoneOk(r)
    \/ \E r \in 1..MaxReqs, err \in Errors : DoneErr(r, err)

Spec == Init /\ [][Next]_vars

\* The transfer requests of the pipeline scenario.
TransferRequests ==
    {Message(i, "QUERY", <<[class |-> "IN", name |-> Domain, type |-> "AXFR"]>>) :
        i \in ReqIds}

NextPipeline ==
    \/ \E addrs \in LookupAnswers : LookupOk(1, 1, addrs)
    \/ Len(conns) = 0 /\ Accept(A1)
    \/ \E req \in TransferRequests : OnData(1, req, MaxPipelined)
    \/ \E r \in 1..MaxPipelined, soa \in SoaRecords : SoaOk(r, soa)
    \/ \E r \in 1..MaxPipelined, err \in Errors : SoaErr(r, err)
    \/ \E r \in 1..MaxPipelined : Emit(r)
    \/ \E r \in 1..MaxPipelined : DoneOk(r)
    \/ \E r \in 1..MaxPipelined, err \in Errors : DoneErr(r, err)

SpecPipeline == Init /\ [][NextPipeline]_vars

NextSlaves ==
    \/ \E l \in SeqsUpTo(SlaveEntries, MaxList), hasCb \in BOOLEAN : SetSlaves(l, hasCb)
    \/ \E c \in 1..MaxCalls, i \in 1..MaxList, addrs \in LookupAnswers : LookupOk(c, i, addrs)
    \/ \E c \in 1..MaxCalls, i \in 1..MaxList, err \in LookupErrors : LookupErr(c, i, err)

SpecSlaves == InitAdmin /\ [][NextSlaves]_vars

NextNotify ==
    \/ \E i \in 1..MaxList, addrs \in LookupAnswers : LookupOk(1, i, addrs)
    \/ \E i \in 1..MaxList, err \in LookupErrors : LookupErr(1, i, err)
    \/ Notify
    \/ \E n \in 1..(MaxNotify * MaxList) : NotifyConnect(n)
    \/ \E n \in 1..(MaxNotify * MaxList), err \in ConnectErrors : NotifyError(n, err)

SpecNotify == InitNotify /\ [][NextNotify]_vars

NextLateEmit ==
    \/ \E addrs \in LookupAnswers : LookupOk(1, 1, addrs)
    \/ Len(conns) = 0 /\ Accept(A1)
    \/ \E req \in TransferRequests : OnData(1, req, MaxReqs)
    \/ \E r \in 1..MaxReqs, soa \in SoaRecords : SoaOk(r, soa)
    \/ \E r \in 1..MaxReqs : Emit(r)
    \/ \E r \in 1..MaxReqs : DoneOk(r)
    \/ \E r \in 1..MaxReqs, err \in Errors : DoneErr(r, err)
    \/ \E r \in 1..MaxReqs : EmitAfterDone(r)

SpecLateEmit == Init /\ [][NextLateEmit]_vars

\* A request the handler has nothing left to do for, unless its producer
\* makes a call.
Terminal(q) == q.stage \in {"formerr", "notimp", "answered", "soafail", "done", "failed"}

\* One request message per kind of outcome.
SessionRequests ==
    {Message(i, "QUERY", q) :
        i \in ReqIds,
        q \in {<<>>} \cup {<<[class |-> "IN", name |-> Domain, type |-> t]>> :
                               t \in {"A", "SOA", "AXFR"}}}

NextSession ==
    \/ \E addrs \in LookupAnswers : LookupOk(1, 1, addrs)
    \/ Len(conns) = 0 /\ Accept(A1)
    \/ (\A r \in DOMAIN reqs : Terminal(reqs[r]))
          /\ \E req \in SessionRequests : OnData(1, req, MaxPipelined)
    \/ \E r \in 1..MaxPipelined, soa \in SoaRecords : SoaOk(r, soa)
    \/ \E r \in 1..MaxPipelined, err \in Errors : SoaErr(r, err)
    \/ \E r \in 1..MaxPipelined : Emit(r)
    \/ \E r \in 1..MaxPipelined : DoneOk(r)
    \/ \E r \in 1..MaxPipelined, err \in Errors : DoneErr(r, err)

SpecSession == Init /\ [][NextSession]_vars

\* The k-th record of the producer of request r.
RecordOf(r, k) == Record(10 * r + k)

NextConns ==
    \/ \E addrs \in LookupAnswers : LookupOk(1, 1, addrs)
    \/ \E remote \in {A1, M1} : Accept(remote)
    \/ \E c \in 1..MaxConns, req \in TransferRequests :
          /\ \A r \in DOMAIN reqs : reqs[r].conn # c
          /\ OnData(c, req, MaxConns)
    \/ \E r \in 1..MaxConns, soa \in SoaRecords : SoaOk(r, soa)
    \/ \E r \in 1..MaxConns :
          /\ r \in DOMAIN reqs
          /\ EmitRecord(r, RecordOf(r, Len(reqs[r].emitted) + 1), MaxEmit)
    \/ \E r \in 1..MaxConns : DoneOk(r)

SpecConns == Init /\ [][NextConns]_vars

NextBatch ==
    \/ \E addrs \in LookupAnswers : LookupOk(1, 1, addrs)
    \/ Len(conns) = 0 /\ Accept(A1)
    \/ Len(reqs) = 0 /\ \E req \in TransferRequests : OnData(1, req, MaxReqs)
    \/ \E soa \in SoaRecords : SoaOk(1, soa)
    \/ 1 \in DOMAIN reqs
          /\ EmitRecord(1, Record(Len(reqs[1].emitted) + 1), MaxBatchEmit)
    \/ DoneOk(1)

SpecBatch == Init /\ [][NextBatch]_vars

NextStartup ==
    \/ \E i \in 1..MaxList, addrs \in LookupAnswers : LookupOk(1, i, addrs)
    \/ \E i \in 1..MaxList, err \in LookupErrors : LookupErr(1, i, err)
    \/ \E remote \in RemoteAddresses : Accept(remote)
    \/ \E c \in 1..MaxConns, req \in TransferRequests : OnData(c, req, MaxReqs)
    \/ \E r \in 1..MaxReqs, soa \in SoaRecords : SoaOk(r, soa)
    \/ Notify
    \/ \E n \in 1..(MaxNotify * MaxList) : NotifyConnect(n)

SpecStartup == InitStartup /\ [][NextStartup]_vars

\* The lists of the replacing setSlaves call: empty or one entry.
ReplacementLists == {<<>>} \cup {<<entry>> : entry \in SlaveEntries}

NextReconfig ==
    \/ \E l \in ReplacementLists : SetSlaves(l, FALSE)
    \/ \E c \in 1..MaxCalls, addrs \in LookupAnswers : LookupOk(c, 1, addrs)
    \/ Len(conns) = 0 /\ slaves # <<>> /\ \E remote \in {A1, A2} : Accept(remote)
    \/ \E req \in TransferRequests : OnData(1, req, MaxReqs)
    \/ \E r \in 1..MaxReqs, soa \in SoaRecords : SoaOk(r, soa)
    \/ \E r \in 1..MaxReqs : Emit(r)
    \/ \E r \in 1..MaxReqs : DoneOk(r)

SpecReconfig == Init /\ [][NextReconfig]_vars

NextFaults ==
    \/ ~Crashed /\ \E addrs \in LookupAnswers : LookupOk(1, 1, addrs)
    \/ ~Crashed /\ \E remote \in RemoteAddresses : Accept(remote)
    \/ ~Crashed /\ \E c \in 1..MaxConns : Close(c)
    \/ ~Crashed /\ \E c \in 1..MaxConns, req \in TransferRequests : OnData(c, req, MaxReqs)
    \/ ~Crashed /\ \E r \in 1..MaxReqs, soa \in SoaRecords : SoaOk(r, soa)
    \/ ~Crashed /\ \E r \in 1..MaxReqs : Emit(r)
    \/ ~Crashed /\ \E r \in 1..MaxReqs : DoneOk(r)
    \/ ~Crashed /\ \E c \in 1..MaxConns, err \in TransportErrors : TransportError(c, err)
    \/ ~Crashed /\ \E c \in 1..MaxConns : DecodeError(c)

SpecFaults == Init /\ [][NextFaults]_vars

(***************************************************************************)
(* Properties.  The predicates below restate the conditions of the         *)
(* properties on their own, without the operators of the handler.          *)
(***************************************************************************)
SupportedQuery(m) ==
    /\ Len(m.question) = 1
    /\ m.opcode = "QUERY"
    /\ m.question[1].class = "IN"
    /\ m.question[1].name = "test.lan"
    /\ m.question[1].type \in {"SOA", "AXFR", "IXFR"}

TransferQuery(m) == SupportedQuery(m) /\ m.question[1].type \in {"AXFR", "IXFR"}

\* A response for request q whose sole answer is its SOA record.
SoaResponse(p, q) ==
    /\ p.id = q.msg.id /\ p.qr = 1 /\ p.aa = 1 /\ p.rcode = "NOERROR"
    /\ p.answer = <<q.soaResult>>

CeilDiv(n, b) == (n + b - 1) \div b

RECURSIVE Answers(_)
Answers(packets) ==
    IF Len(packets) = 0 THEN <<>>
    ELSE Head(packets).answer \o Answers(Tail(packets))

\* C1: a transfer whose producer emitted N records and then called
\* done(null) has written, in this order, the SOA response, ceil(N/B) batch
\* responses of at most B records each, and the closing SOA response; the
\* answers of the batch responses, concatenated, are the emitted records in
\* emission order.
C1_TransferResponses ==
    \A r \in DOMAIN reqs :
        LET q == reqs[r]
            n == Len(q.emitted)
            k == CeilDiv(n, BatchLimit)
        IN  (TransferQuery(q.msg) /\ q.stage = "done") =>
                /\ Len(q.out) = k + 2
                /\ SoaResponse(q.out[1], q)
                /\ SoaResponse(q.out[k + 2], q)
                /\ \A j \in 2..(k + 1) :
                       /\ Len(q.out[j].answer) \in 1..BatchLimit
                       /\ q.out[j].id = q.msg.id /\ q.out[j].rcode = "NOERROR"
                /\ Answers(SubSeq(q.out, 2, k + 1)) = q.emitted

C1_Witness ==
    \E r \in DOMAIN reqs :
        /\ reqs[r].stage = "done" /\ batchSize = 2
        /\ Len(reqs[r].emitted) = 3 /\ Len(reqs[r].out) = 4
        /\ Len(reqs[r].out[3].answer) = 1

\* C2: a supported SOA query whose SOA producer succeeded has exactly one
\* response, with the request's id, authoritative, whose answer is the
\* record soaFn returned; the body producer is never invoked for it.
C2_SoaQuery ==
    \A r \in DOMAIN reqs :
        LET q == reqs[r]
        IN  (SupportedQuery(q.msg) /\ q.msg.question[1].type = "SOA") =>
                /\ q.bodyCalls = 0
                /\ q.stage \in {"soa", "answered", "soafail"}
                /\ q.stage = "soa" => q.out = <<>>
                /\ q.stage = "answered" =>
                       Len(q.out) = 1 /\ SoaResponse(q.out[1], q)

C2_Witness ==
    \E r \in DOMAIN reqs :
        /\ Len(reqs[r].msg.question) = 1
        /\ reqs[r].msg.question[1].type = "SOA" /\ reqs[r].stage = "answered"
        /\ reqs[r].msg.id = 2 /\ reqs[r].soaResult.serial = 2

C4_NotImp ==
    \A r \in DOMAIN reqs :
        LET q == reqs[r]
        IN  (Len(q.msg.question) = 1 /\ ~SupportedQuery(q.msg)) =>
                /\ Len(q.out) = 1
                /\ q.out[1].rcode = "NOTIMP" /\ q.out[1].id = q.msg.id
                /\ q.soaCalls = 0 /\ q.bodyCalls = 0

C4_Witness ==
    \E r \in DOMAIN reqs :
        /\ Len(reqs[r].msg.question) = 1 /\ reqs[r].msg.opcode = "QUERY"
        /\ reqs[r].msg.question[1] = [class |-> "IN", name |-> "TEST.LAN", type |-> "AXFR"]
        /\ reqs[r].out # <<>>

\* C5: when the body producer of a transfer calls done(error) after emitting
\* fewer than B records, exactly one response follows the SOA response, it
\* has code SERVFAIL, no closing SOA response is written, and the error
\* callback is invoked exactly once, with that error.
C5_BodyFailure ==
    \A r \in DOMAIN reqs :
        LET q == reqs[r]
        IN  (TransferQuery(q.msg) /\ q.stage = "failed"
                /\ Len(q.emitted) < BatchLimit) =>
                /\ Len(q.out) = 2
                /\ SoaResponse(q.out[1], q)
                /\ q.out[2].rcode = "SERVFAIL" /\ q.out[2].id = q.msg.id
                /\ q.out[2].answer = <<>>
                /\ q.errorFnCalls = <<q.err>>
                /\ q.err \in Errors

C5_Witness ==
    \E r \in DOMAIN reqs :
        /\ reqs[r].stage = "failed" /\ batchSize = 2
        /\ Len(reqs[r].emitted) = 1 /\ reqs[r].err.code = "EPIPE"

\* C6: a connection is accepted, and its requests processed, exactly when
\* its remote address is a resolved address of a slave of the committed
\* list; a connection from any other address is destroyed at accept time
\* and no request is ever handled on it (no response, no logFn, soaFn or
\* bodyFn call).
C6_Whitelist ==
    /\ \A c \in DOMAIN conns :
           /\ conns[c].wired = conns[c].listed
           /\ ~conns[c].wired => ~conns[c].alive
    /\ \A r \in DOMAIN reqs : conns[reqs[r].conn].wired

C6_Witness ==
    \E c \in DOMAIN conns, d \in DOMAIN conns, r \in DOMAIN reqs :
        /\ conns[c].remote = <<"::ffff:", "10.0.0.1">> /\ conns[c].wired
        /\ conns[d].remote = <<"10.0.0.3">> /\ ~conns[d].wired
        /\ slaves # <<>>
        /\ reqs[r].conn = c /\ reqs[r].out # <<>>

\* C7: a notify() call opens one connection per slave of the list, to that
\* slave's host and port; on each, the NOTIFY message (opcode NOTIFY,
\* authoritative, single question IN SOA domain) is written once, when the
\* connection is established and not before, and never a second time.
NotifyMessage ==
    [id |-> 0, qr |-> 0, opcode |-> "NOTIFY", aa |-> 1, rcode |-> "NOERROR",
     question |-> <<[class |-> "IN", type |-> "SOA", name |-> "test.lan"]>>,
     answer |-> <<>>]

NotifyConnsOk ==
    \A n \in DOMAIN notifies :
        LET x == notifies[n]
        IN  /\ x.host = x.slave.host /\ x.port = x.slave.port
            /\ x.call \in 1..notifyCount
            /\ x.state = "connecting" => x.sent = <<>>
            /\ x.state = "connected" => x.sent = <<NotifyMessage>>
            /\ x.sent \in {<<>>, <<NotifyMessage>>}

NotifyStepOk ==
    /\ notifyCount' = notifyCount => Len(notifies') = Len(notifies)
    /\ notifyCount' # notifyCount =>
           /\ notifyCount' = notifyCount + 1
           /\ Len(notifies') = Len(notifies) + Len(slaves)
           /\ \A i \in 1..Len(slaves) :
                  LET x == notifies'[Len(notifies) + i]
                  IN  x.slave = slaves[i] /\ x.call = notifyCount'
                      /\ x.state = "connecting"
    /\ \A n \in DOMAIN notifies :
           /\ notifies'[n].slave = notifies[n].slave
           /\ notifies'[n].call = notifies[n].call
           /\ notifies[n].sent # <<>> => notifies'[n].sent = notifies[n].sent

C7_Notify == [][NotifyStepOk /\ NotifyConnsOk']_vars

C7_Witness ==
    \E n \in DOMAIN notifies, m \in DOMAIN notifies :
        /\ n # m /\ notifies[n].call = notifies[m].call
        /\ notifies[n].port = 53 /\ notifies[m].port = 10
        /\ notifies[n].state = "connected" /\ notifies[m].state = "connected"
        /\ notifies[n].sent = notifies[m].sent /\ Len(notifies[n].sent) = 1

\* C8: a setSlaves call one of whose lookups failed never commits: no step
\* of that call changes the slave list or the address index, whatever its
\* other lookups do before or after the failure; its error is delivered
\* exactly once, to the callback if one was given and otherwise as an error
\* event on the server.
CallFailed(call) ==
    \/ call.emitted # <<>>
    \/ \E k \in DOMAIN call.cbLog : call.cbLog[k] # NoError

C8_FailedCallKeepsRegistry ==
    [][\A c \in DOMAIN calls :
          LET before == calls[c]
              after  == calls'[c]
          IN  CallFailed(after) =>
                  /\ after.commits = 0
                  /\ after # before =>
                         slaves' = slaves /\ slavesByIp' = slavesByIp
                  /\ IF after.hasCb
                     THEN /\ Len(after.cbLog) = 1 /\ after.cbLog[1] \in LookupErrors
                          /\ after.emitted = <<>>
                     ELSE /\ Len(after.emitted) = 1 /\ after.emitted[1] \in LookupErrors
                          /\ after.cbLog = <<>>]_vars

C8_Witness ==
    \E c \in DOMAIN calls :
        /\ CallFailed(calls[c])
        /\ Len(calls[c].list) = 2 /\ calls[c].inflight = {}
        /\ \E i \in 1..2 : calls[c].list[i].addresses # {}
        /\ calls[c].hasCb
        /\ slaves # <<>> /\ DOMAIN slavesByIp # {}

\* C9, as the claim states it: on one connection at most one request has a
\* producer call outstanding.
InFlight(q) == q.stage \in {"soa", "body"}

C9_OneAtATime ==
    \A r \in DOMAIN reqs, t \in DOMAIN reqs :
        (r # t /\ reqs[r].conn = reqs[t].conn) =>
            ~(InFlight(reqs[r]) /\ InFlight(reqs[t]))

\* C9, amended: requests of one connection are handled as they arrive and
\* may overlap; per request, soaFn is invoked once on arrival, bodyFn once
\* and only after the SOA response was written, the request has its own
\* pending batch, and its responses carry its id in its own order: the SOA
\* response, then the batches, whose answers followed by the pending
\* records are the records emitted for this request.
C9_PerRequestOrder ==
    \A r \in DOMAIN reqs :
        LET q == reqs[r]
        IN  TransferQuery(q.msg) =>
                /\ q.soaCalls = 1
                /\ q.bodyCalls = IF q.stage \in {"body", "done", "failed"} THEN 1 ELSE 0
                /\ q.stage = "soa" => q.out = <<>>
                /\ q.stage \in {"body", "done", "failed"} =>
                       /\ SoaResponse(q.out[1], q)
                       /\ \A j \in DOMAIN q.out : q.out[j].id = q.msg.id
                /\ q.stage = "body" =>
                       /\ Answers(Tail(q.out)) \o q.pending = q.emitted
                       /\ Len(q.pending) < BatchLimit

C9_Witness ==
    \E r \in DOMAIN reqs, t \in DOMAIN reqs :
        /\ r # t /\ reqs[r].conn = reqs[t].conn
        /\ reqs[r].stage = "body" /\ reqs[t].stage = "body"
        /\ Len(reqs[r].out) = 2 /\ Len(reqs[t].out) = 2
        /\ reqs[r].msg.id # reqs[t].msg.id

\* C10, as the claim states it: nothing is written for a request once its
\* connection is closed.
C10_NoLateWrite == \A r \in DOMAIN reqs : reqs[r].late = 0

\* C10, amended: emit and done calls made after the connection was closed
\* are handled as on a live connection; the handler passes to the
\* connection's writable stream every full batch, and on done the last
\* batch and the closing SOA response, or the SERVFAIL response.
C10_LateCallsStillWrite ==
    \A r \in DOMAIN reqs :
        LET q == reqs[r]
            n == Len(q.emitted)
        IN  (TransferQuery(q.msg) /\ ~conns[q.conn].alive) =>
                /\ q.stage = "body" => Len(q.out) = 1 + (n \div BatchLimit)
                /\ q.stage = "done" =>
                       /\ Len(q.out) = 2 + CeilDiv(n, BatchLimit)
                       /\ SoaResponse(q.out[Len(q.out)], q)
                /\ q.stage = "failed" =>
                       /\ Len(q.out) = 2 + (n \div BatchLimit)
                       /\ q.out[Len(q.out)].rcode = "SERVFAIL"

C10_Witness ==
    \E r \in DOMAIN reqs :
        /\ ~conns[reqs[r].conn].alive
        /\ reqs[r].stage = "done" /\ batchSize = 1
        /\ Len(reqs[r].emitted) = 2 /\ reqs[r].late = 3


\* C11: once the body producer has called done for a request, a later emit
\* call writes nothing: the closing SOA response (after done(null)) or the
\* SERVFAIL response (after done(error)) stays the last response of the
\* request, and no record is sent twice.
NoDuplicates(seq) ==
    \A i \in DOMAIN seq, j \in DOMAIN seq : seq[i] = seq[j] => i = j

C11_EmitAfterDoneIgnored ==
    \A r \in DOMAIN reqs :
        LET q == reqs[r]
        IN  /\ q.stage = "done" => SoaResponse(q.out[Len(q.out)], q)
            /\ q.stage = "failed" => q.out[Len(q.out)].rcode = "SERVFAIL"
            /\ q.stage \in {"done", "failed"} =>
                   NoDuplicates(Answers(SubSeq(q.out, 2, Len(q.out))))


\* C12: a decode failure on one connection does not end the process: it is
\* reported as a server error event carrying that connection, and that
\* connection's session ends.
C12_DecodeFailureContained ==
    /\ ~Crashed
    /\ \A c \in DOMAIN conns :
           \A k \in DOMAIN conns[c].decodeErrors :
               /\ \E j \in DOMAIN conns[c].serverErrors :
                      conns[c].serverErrors[j] =
                          [error |-> conns[c].decodeErrors[k], connection |-> c]
               /\ ~conns[c].alive


\* C18: a transport error with code EPIPE on an accepted connection produces
\* no server error event; any other transport error produces exactly one,
\* carrying the error and that connection; neither changes another
\* connection or any request.
C18_TransportErrors ==
    [][\A c \in DOMAIN conns :
          conns'[c].transport # conns[c].transport =>
              LET err == conns'[c].transport[Len(conns'[c].transport)]
              IN  /\ Len(conns'[c].transport) = Len(conns[c].transport) + 1
                  /\ err.code = "EPIPE" =>
                         conns'[c].serverErrors = conns[c].serverErrors
                  /\ err.code # "EPIPE" =>
                         conns'[c].serverErrors =
                             Append(conns[c].serverErrors,
                                    [error |-> err, connection |-> c])
                  /\ \A d \in DOMAIN conns : d # c => conns'[d] = conns[d]
                  /\ reqs' = reqs]_vars

C18_Witness ==
    \E c \in DOMAIN conns, d \in DOMAIN conns, r \in DOMAIN reqs :
        /\ Len(conns[c].transport) = 1 /\ conns[c].transport[1].code = "EPIPE"
        /\ conns[c].serverErrors = <<>>
        /\ Len(conns[d].transport) = 1 /\ conns[d].transport[1].code = "ECONNRESET"
        /\ Len(conns[d].serverErrors) = 1
        /\ reqs[r].conn = c /\ reqs[r].stage = "done" /\ reqs[r].late > 0


\* C13: the step that brings a request to its outcome (FORMERR, NOTIMP, SOA
\* answer, completed transfer, SERVFAIL after a producer failure) leaves the
\* connection as it was, open; every request that reached its outcome was
\* answered; and a later request on the connection is treated as an earlier
\* one: two requests with the same message and the same producer results
\* have the same responses and callback invocations, whatever came before.
SameTreatment ==
    \A r \in DOMAIN reqs, t \in DOMAIN reqs :
        (/\ reqs[r].conn = reqs[t].conn /\ reqs[r].msg = reqs[t].msg
         /\ reqs[r].stage = reqs[t].stage /\ reqs[r].soaResult = reqs[t].soaResult
         /\ reqs[r].err = reqs[t].err /\ reqs[r].emitted = reqs[t].emitted)
            => reqs[r] = reqs[t]

C13_ConnectionStaysOpen ==
    [][/\ \A r \in DOMAIN reqs' :
              (Terminal(reqs'[r]) /\ (r \in DOMAIN reqs => ~Terminal(reqs[r]))) =>
                  /\ conns' = conns
                  /\ conns'[reqs'[r].conn].alive
                  /\ Len(reqs'[r].out) >= 1
       /\ SameTreatment']_vars

C13_Witness ==
    /\ Len(reqs) = 2 /\ conns[1].alive
    /\ reqs[1].conn = 1 /\ reqs[2].conn = 1
    /\ reqs[1].stage = "soafail" /\ reqs[2].stage = "done"
    /\ reqs[1].msg.question = reqs[2].msg.question
    /\ Len(reqs[2].out) = 4


\* C14: when the SOA producer reports an error for a valid request, exactly
\* one response is written for the request: code SERVFAIL, the request's id
\* and the request's question list; the error callback is invoked once, with
\* that error; no SOA response is written and the body producer is not
\* invoked, whatever the question type.
C14_SoaFailure ==
    \A r \in DOMAIN reqs :
        LET q == reqs[r]
        IN  (SupportedQuery(q.msg) /\ q.err # NoError /\ q.soaResult = NoSoa
                /\ q.stage # "soa") =>
                /\ Len(q.out) = 1
                /\ q.out[1].rcode = "SERVFAIL" /\ q.out[1].qr = 1
                /\ q.out[1].id = q.msg.id
                /\ q.out[1].question = q.msg.question
                /\ q.out[1].answer = <<>>
                /\ q.errorFnCalls = <<q.err>>
                /\ q.soaCalls = 1 /\ q.bodyCalls = 0

C14_Witness ==
    \E r \in DOMAIN reqs :
        /\ reqs[r].err \in Errors /\ reqs[r].soaResult = NoSoa
        /\ Len(reqs[r].msg.question) = 1
        /\ reqs[r].msg.question[1].type = "IXFR"
        /\ Len(reqs[r].out) = 1 /\ reqs[r].bodyCalls = 0


\* C15: at every point between two handlers (where the whitelist check and
\* notify() read it) the registry is whole: every slave the index points to
\* is a member of the slave list and has the key among its addresses, every
\* resolved address of a listed slave is a key of the index, and the list is
\* the list of a setSlaves call that completed, or the registry is the
\* empty one.
C15_RegistryWhole ==
    /\ \A a \in DOMAIN slavesByIp :
           \E i \in DOMAIN slaves :
               slaves[i] = slavesByIp[a] /\ a \in slaves[i].addresses
    /\ \A i \in DOMAIN slaves :
           \A a \in slaves[i].addresses : a \in DOMAIN slavesByIp
    /\ \/ slaves = <<>> /\ DOMAIN slavesByIp = {}
       \/ \E c \in DOMAIN calls :
              /\ calls[c].commits = 1 /\ calls[c].inflight = {}
              /\ calls[c].list = slaves /\ ~CallFailed(calls[c])

C15_Witness ==
    /\ Len(slaves) = 2
    /\ Cardinality(DOMAIN slavesByIp) = 2
    /\ slaves[1].addresses # slaves[2].addresses
    /\ \E c \in DOMAIN calls : calls[c].commits = 0 /\ calls[c].pending = 1

\* C16: the registry changes only when a setSlaves call completes, and is
\* then that call's list and the index over that call's slaves, never a
\* mixture; so after two overlapping calls have both completed, the
\* registry is that of the call that completed last, whichever was called
\* first.
Completes(c) ==
    IF c \in DOMAIN calls THEN calls'[c].commits > calls[c].commits
    ELSE calls'[c].commits > 0

C16_LastCompleterWins ==
    [][/\ \A c \in DOMAIN calls' :
              Completes(c) =>
                  /\ calls'[c].commits = 1
                  /\ slaves' = calls'[c].list
                  /\ DOMAIN slavesByIp' =
                         UNION {calls'[c].list[i].addresses : i \in DOMAIN calls'[c].list}
                  /\ \A a \in DOMAIN slavesByIp' :
                         \E i \in DOMAIN calls'[c].list :
                             slavesByIp'[a] = calls'[c].list[i]
       /\ (\A c \in DOMAIN calls' : ~Completes(c)) =>
              slaves' = slaves /\ slavesByIp' = slavesByIp]_vars

C16_Witness ==
    /\ Len(calls) = 2
    /\ calls[1].commits = 1 /\ calls[2].commits = 1
    /\ Len(calls[1].list) >= 1 /\ Len(calls[2].list) >= 1
    /\ calls[1].list # calls[2].list
    /\ calls[1].list[1].addresses # calls[2].list[1].addresses
    /\ slaves = calls[1].list


\* C17: for any interleaving of the emit calls of transfers on different
\* connections, every record in a batch response or in the pending batch of
\* a request was emitted for that request, in that order; a step of one
\* request changes no other request, so a producer that never calls done
\* holds back no response of another connection.
C17_OwnRecordsOnly ==
    \A r \in DOMAIN reqs :
        LET q == reqs[r]
        IN  /\ q.stage = "body" => Answers(Tail(q.out)) \o q.pending = q.emitted
            /\ q.stage = "done" =>
                   Answers(SubSeq(q.out, 2, Len(q.out) - 1)) = q.emitted
            /\ \A k \in DOMAIN q.emitted : q.emitted[k].name = 10 * r + k

C17_Independent ==
    [][/\ C17_OwnRecordsOnly'
       /\ \A r \in DOMAIN reqs, t \in DOMAIN reqs :
              (r # t /\ reqs'[t] # reqs[t]) => reqs'[r] = reqs[r]]_vars

C17_Witness ==
    /\ Len(reqs) = 2 /\ batchSize = 2
    /\ reqs[1].conn # reqs[2].conn
    /\ reqs[1].stage = "body" /\ Len(reqs[1].pending) = 1
    /\ reqs[2].stage = "done" /\ Len(reqs[2].emitted) = 3
    /\ Len(reqs[2].out) = 4



\* C19: the step in which the body producer calls done(error), with k
\* records emitted so far, leaves as the records sent for the request the
\* first B * floor(k / B) emitted records, those of the batches emit
\* flushed; the pending records are not sent, and the SERVFAIL response it
\* writes has an empty answer section and the authoritative-answer flag.
\* Nothing further is written for the request unless emit is called again.
FailedWithoutFlush(q) ==
    LET k == Len(q.emitted)
        last == q.out[Len(q.out)]
    IN  /\ Answers(SubSeq(q.out, 2, Len(q.out) - 1)) =
               SubSeq(q.emitted, 1, BatchLimit * (k \div BatchLimit))
        /\ q.pending = SubSeq(q.emitted, BatchLimit * (k \div BatchLimit) + 1, k)
        /\ last.rcode = "SERVFAIL" /\ last.aa = 1
        /\ last.answer = <<>>

C19_PendingNotFlushed ==
    [][\A r \in DOMAIN reqs :
          /\ (reqs[r].stage = "body" /\ reqs'[r].stage = "failed") =>
                 FailedWithoutFlush(reqs'[r])
          /\ (reqs[r].stage = "failed" /\ reqs'[r].emitted = reqs[r].emitted) =>
                 reqs'[r].out = reqs[r].out]_vars

C19_Witness ==
    \E r \in DOMAIN reqs :
        /\ reqs[r].stage = "failed" /\ batchSize = 2
        /\ Len(reqs[r].emitted) = 3 /\ Len(reqs[r].pending) = 1
        /\ Len(reqs[r].out) = 3 /\ Len(reqs[r].out[2].answer) = 2
        /\ reqs[r].out[3].rcode = "SERVFAIL"


\* C20: with batch size B (20 when params.batchSize is unset or 0), the
\* pending sequence holds fewer than B records after every emit call; every
\* batch response written by emit holds exactly B records; the batch
\* written by done(null) holds the N mod B remaining records, between 1 and
\* B - 1, and is not written when there are none; no batch response is
\* empty, and for N = 0 the closing SOA response follows the SOA response.
ClaimedBatchSize == IF batchSize = 0 THEN 20 ELSE batchSize

C20_BatchSizes ==
    \A r \in DOMAIN reqs :
        LET q == reqs[r]
            n == Len(q.emitted)
            B == ClaimedBatchSize
            batches == IF q.stage = "done" THEN SubSeq(q.out, 2, Len(q.out) - 1)
                       ELSE Tail(q.out)
        IN  q.stage \in {"body", "done"} =>
                /\ Len(q.pending) < B
                /\ Len(batches) = IF q.stage = "done" THEN CeilDiv(n, B) ELSE n \div B
                /\ \A j \in DOMAIN batches :
                       /\ batches[j].rcode = "NOERROR"
                       /\ Len(batches[j].answer) =
                              IF j <= n \div B THEN B ELSE n % B
                       /\ Len(batches[j].answer) \in 1..B
                /\ (q.stage = "done" /\ n = 0) =>
                       (Len(q.out) = 2 /\ SoaResponse(q.out[1], q)
                           /\ SoaResponse(q.out[2], q))

C20_Witness ==
    \E r \in DOMAIN reqs :
        /\ batchSize = 0 /\ reqs[r].stage = "done"
        /\ Len(reqs[r].emitted) = 21 /\ Len(reqs[r].out) = 4
        /\ Len(reqs[r].out[2].answer) = 20 /\ Len(reqs[r].out[3].answer) = 1


\* C21: for a request that passes validation the SOA producer is invoked
\* once; the body producer is invoked once when the question type is AXFR or
\* IXFR and the SOA producer has succeeded, the SOA response being written
\* by then, and not at all otherwise; a request that fails validation
\* invokes no producer.
C21_ProducerCalls ==
    \A r \in DOMAIN reqs :
        LET q == reqs[r]
            succeeded == q.soaResult # NoSoa
        IN  /\ q.soaCalls = IF SupportedQuery(q.msg) THEN 1 ELSE 0
            /\ q.bodyCalls =
                   IF TransferQuery(q.msg) /\ succeeded THEN 1 ELSE 0
            /\ q.bodyCalls = 1 =>
                   (Len(q.out) >= 1 /\ SoaResponse(q.out[1], q))

C21_Witness ==
    \E r \in DOMAIN reqs :
        /\ Len(reqs[r].msg.question) = 1
        /\ reqs[r].msg.question[1].type = "IXFR" /\ reqs[r].stage = "done"
        /\ reqs[r].soaCalls = 1 /\ reqs[r].bodyCalls = 1
        /\ Len(reqs[r].emitted) = 2 /\ reqs[r].late = 0


\* C22: the address index maps each resolved address to the last slave of
\* the list among those that resolved to it; the slaves sharing an address
\* all stay in the slave list, and a notify() call opens a connection for
\* each of them.
LastHolder(a) ==
    CHOOSE i \in DOMAIN slaves :
        /\ a \in slaves[i].addresses
        /\ \A j \in DOMAIN slaves : a \in slaves[j].addresses => j <= i

IndexPointsToLast ==
    /\ DOMAIN slavesByIp = UNION {slaves[i].addresses : i \in DOMAIN slaves}
    /\ \A a \in DOMAIN slavesByIp : slavesByIp[a] = slaves[LastHolder(a)]

C22_LaterSlaveWins ==
    [][/\ IndexPointsToLast'
       /\ notifyCount' # notifyCount =>
              \A i \in DOMAIN slaves :
                  \E n \in (Len(notifies) + 1)..Len(notifies') :
                      notifies'[n].slave = slaves[i]]_vars

C22_Witness ==
    /\ Len(slaves) = 2
    /\ slaves[1].port # slaves[2].port
    /\ <<"10.0.0.1">> \in slaves[1].addresses \cap slaves[2].addresses
    /\ slavesByIp[<<"10.0.0.1">>] = slaves[2]
    /\ Len(notifies) = 2
    /\ notifies[1].slave = slaves[1] /\ notifies[2].slave = slaves[2]
    /\ notifies[1].sent # <<>> /\ notifies[2].sent # <<>>


\* C23, as the claim states it: the body producer is called with the
\* question and the SOA record and, for IXFR, with the serial of the first
\* authority record of the request, for AXFR with a value standing for 'no
\* serial'.
C23_SerialArgument ==
    \A r \in DOMAIN reqs :
        \A c \in DOMAIN reqs[r].bodyArgs :
            LET args == reqs[r].bodyArgs[c]
                m == reqs[r].msg
            IN  /\ \E k \in DOMAIN args :
                       args[k] = [kind |-> "question", question |-> m.question[1]]
                /\ \E k \in DOMAIN args :
                       args[k] = [kind |-> "record", record |-> reqs[r].soaResult]
                /\ IF m.question[1].type = "IXFR"
                   THEN \E k \in DOMAIN args :
                            args[k] = [kind |-> "serial",
                                       serial |-> m.authority[1].serial]
                   ELSE \E k \in DOMAIN args : args[k].kind = "none"

\* C23, amended: for AXFR and IXFR alike the body producer is called with
\* the connection, the request message as received, the SOA record, the
\* emit function and the done callback, in this order; the serial of an
\* IXFR request is passed only as part of the request message
\* (request.authority[0].serial), and so is the question.
C23_RequestArgument ==
    \A r \in DOMAIN reqs :
        LET q == reqs[r]
        IN  /\ Len(q.bodyArgs) = q.bodyCalls
            /\ \A c \in DOMAIN q.bodyArgs :
                   /\ Len(q.bodyArgs[c]) = 5
                   /\ q.bodyArgs[c][1] = [kind |-> "context", conn |-> q.conn]
                   /\ q.bodyArgs[c][2] = [kind |-> "request", msg |-> q.msg]
                   /\ q.bodyArgs[c][3] = [kind |-> "record", record |-> q.soaResult]
                   /\ q.bodyArgs[c][4].kind = "function"
                   /\ q.bodyArgs[c][5].kind = "function"
                   /\ q.msg.question[1].type = "IXFR" =>
                          q.bodyArgs[c][2].msg.authority[1].serial = 1

C23_Witness ==
    \E r \in DOMAIN reqs :
        /\ Len(reqs[r].bodyArgs) = 1 /\ reqs[r].stage = "body"
        /\ reqs[r].msg.question[1].type = "IXFR"
        /\ reqs[r].msg.authority # <<>>


\* C24: a connection error towards one slave produces one error event on
\* the server, carrying the error, the NOTIFY request and that connection;
\* the step opens no new connection (no retry) and changes no other
\* outbound connection, whose NOTIFY message is sent as usual; a failed
\* connection reports no second error and sends nothing afterwards.
C24_NotifyErrors ==
    [][\A n \in DOMAIN notifies :
          /\ notifies'[n].errors # notifies[n].errors =>
                 /\ \E err \in ConnectErrors :
                        notifies'[n].errors =
                            Append(notifies[n].errors,
                                   [error |-> err, request |-> NotifyMessage,
                                    connection |-> n])
                 /\ Len(notifies') = Len(notifies)
                 /\ notifies'[n].sent = notifies[n].sent
                 /\ \A m \in DOMAIN notifies : m # n => notifies'[m] = notifies[m]
          /\ notifies[n].state = "failed" => notifies'[n] = notifies[n]
          /\ Len(notifies'[n].errors) <= 1]_vars

C24_Witness ==
    \E n \in DOMAIN notifies, m \in DOMAIN notifies :
        /\ n < m /\ notifies[n].call = notifies[m].call
        /\ notifies[n].state = "failed" /\ notifies[n].sent = <<>>
        /\ Len(notifies[n].errors) = 1
        /\ notifies[m].state = "connected" /\ Len(notifies[m].sent) = 1
        /\ notifies[m].errors = <<>>


\* C25: as long as no setSlaves call has completed, the lookups of the
\* first call being in flight or having failed, the registry is empty:
\* every connection accepted is destroyed, no request has been handled, and
\* a notify() call opens no connection.
NoneCompleted == \A c \in DOMAIN calls : calls[c].commits = 0

C25_EmptyUntilFirstCommit ==
    [][NoneCompleted =>
          /\ slaves = <<>> /\ DOMAIN slavesByIp = {}
          /\ reqs = <<>> /\ reqs' = <<>>
          /\ Len(conns') > Len(conns) =>
                 (~conns'[Len(conns')].wired /\ ~conns'[Len(conns')].alive)
          /\ notifyCount' # notifyCount => notifies' = notifies]_vars

C25_Witness ==
    /\ Len(calls) = 1 /\ CallFailed(calls[1]) /\ calls[1].inflight = {}
    /\ Len(calls[1].list) = 2
    /\ Len(conns) = 2 /\ conns[1].remote = <<"10.0.0.1">>
    /\ ~conns[1].wired /\ ~conns[2].wired
    /\ notifyCount = 1 /\ notifies = <<>>


\* C26: every response written for a request has the request's id and the
\* qr flag, also while another request of the connection is in flight; the
\* first response of a request has the request's question list, every
\* later one an empty question list.
C26_IdAndQr ==
    \A r \in DOMAIN reqs :
        \A j \in DOMAIN reqs[r].out :
            /\ reqs[r].out[j].id = reqs[r].msg.id
            /\ reqs[r].out[j].qr = 1
            /\ reqs[r].out[j].question =
                   IF j = 1 THEN reqs[r].msg.question ELSE <<>>

C26_Witness ==
    \E r \in DOMAIN reqs, t \in DOMAIN reqs :
        /\ reqs[r].conn = reqs[t].conn
        /\ reqs[r].msg.id = 1 /\ reqs[t].msg.id = 2
        /\ reqs[r].stage = "body" /\ Len(reqs[r].out) = 3
        /\ reqs[t].stage = "failed" /\ Len(reqs[t].out) = 3


\* C27: a setSlaves call given a callback has invoked it at most once at
\* any time and exactly once when all its lookups have returned, whatever
\* the length of the list and the results of the lookups: with the first
\* lookup error and without a commit, or without error in the step that
\* committed the registry; a lookup result of a call that has failed
\* neither invokes the callback nor changes the registry.
C27_CallbackOnce ==
    [][\A c \in DOMAIN calls' :
          LET after == calls'[c]
              isNew == c \notin DOMAIN calls
          IN  after.hasCb =>
                  /\ Len(after.cbLog) <= 1
                  /\ after.inflight = {} => Len(after.cbLog) = 1
                  /\ after.emitted = <<>>
                  /\ after.cbLog = <<NoError>> =>
                         /\ after.commits = 1
                         /\ \A i \in DOMAIN after.list : i \notin after.inflight
                         /\ (isNew \/ calls[c].cbLog = <<>>) => slaves' = after.list
                  /\ (after.cbLog # <<>> /\ after.cbLog # <<NoError>>) =>
                         /\ after.commits = 0
                         /\ after.cbLog[1] \in LookupErrors
                  /\ (~isNew /\ CallFailed(calls[c]) /\ after # calls[c]) =>
                         /\ after.cbLog = calls[c].cbLog
                         /\ slaves' = slaves /\ slavesByIp' = slavesByIp]_vars

C27_Witness ==
    \E c \in DOMAIN calls, d \in DOMAIN calls :
        /\ calls[c].hasCb /\ calls[d].hasCb
        /\ Len(calls[c].list) = 2 /\ calls[c].inflight = {}
        /\ Len(calls[c].cbLog) = 1 /\ calls[c].cbLog[1] \in LookupErrors
        /\ calls[d].list = <<>> /\ calls[d].cbLog = <<NoError>>


\* C28: every producer failure (soaFn or bodyFn reporting an error) results
\* in exactly one error event on the server, carrying the error, the failing
\* request and the connection, whatever the error's code.
C28_ProducerFailureReported ==
    \A r \in DOMAIN reqs :
        reqs[r].err # NoError =>
            reqs[r].serverErrors =
                <<[error |-> reqs[r].err, request |-> reqs[r].msg,
                   connection |-> reqs[r].conn]>>


\* C29: a step of setSlaves (the call or one of its lookups, the commit
\* included) changes no connection and no request; a connection accepted
\* stays open and its requests are answered by the usual rules, also when
\* its address is no longer a key of the index.
C29_AcceptedStaysServed ==
    [][/\ (calls' # calls \/ slaves' # slaves \/ slavesByIp' # slavesByIp) =>
              (conns' = conns /\ reqs' = reqs)
       /\ \A c \in DOMAIN conns : conns[c].wired => conns'[c] = conns[c]
       /\ \A r \in DOMAIN reqs' :
              LET q == reqs'[r]
              IN  /\ conns'[q.conn].wired /\ conns'[q.conn].alive
                  /\ q.stage = "done" =>
                         /\ Len(q.out) = 2 + CeilDiv(Len(q.emitted), BatchLimit)
                         /\ SoaResponse(q.out[Len(q.out)], q)]_vars

C29_Witness ==
    \E r \in DOMAIN reqs :
        /\ conns[1].wired /\ conns[1].alive /\ reqs[r].conn = 1
        /\ conns[1].remote = <<"10.0.0.2">>
        /\ slaves # <<>> /\ conns[1].remote \notin DOMAIN slavesByIp
        /\ Len(calls) = 2 /\ calls[2].commits = 1
        /\ reqs[r].stage = "done" /\ Len(reqs[r].emitted) = 2

====
